---- MODULE Spec2Model ----
(***************************************************************************)
(* Verification model of the instrument drivers of tfe_hardware:           *)
(*   - Agilent_ENA_5071C  (SCPI network analyzer, averaged acquisition)    *)
(*   - Keysight_P9374A    (SCPI network analyzer, per-trace submodules)    *)
(*   - SignalCore_SC5511A (vendor DLL, device handles)                     *)
(*   - AD5760             (register based voltage/current source, ramps)   *)
(*                                                                         *)
(* Each driver is a state machine of its own: its variables are the        *)
(* simulated device (which stores what was last written), the values the   *)
(* driver object holds, the last operation with its outcome, and the       *)
(* transport calls that operation issued.  While one driver runs, the      *)
(* variables of the other drivers keep their idle value.                   *)
(*                                                                         *)
(* Parameter get/set follow the qcodes Parameter the drivers are built on: *)
(* set validates the value against vals before the set command runs; a     *)
(* parameter declared with set_cmd=None is a manual parameter (set stores  *)
(* the value in the parameter cache and sends nothing); a parameter        *)
(* declared without set_cmd is not settable (set raises                    *)
(* NotImplementedError).                                                   *)
(***************************************************************************)
EXTENDS Integers, Sequences, FiniteSets, TLC

VARIABLES
    session,    \* the driver this session talks to
    agDev,      \* Agilent: device settings, by parameter name
    agTimeout,  \* Agilent: transport (VISA) timeout in ms
    agCache,    \* Agilent: value stored by each manual (set_cmd=None) parameter
    agTrace,    \* Agilent: the device's reply to :CALC:DATA:FDATA?
    agOp,       \* Agilent: last operation [name, par, arg, res]
    agRet,      \* Agilent: value returned by the last operation
    agLog,      \* Agilent: transport calls issued by the last operation
    scHandle,   \* SignalCore: state of the handle stored in _handle ("open"/"closed")
    scOpen,     \* SignalCore: _open, the batch flag
    scLeaked,   \* SignalCore: handles opened, never closed, and no longer stored
    scDev,      \* SignalCore: the device's settings
    scRf,       \* SignalCore: _rf_params as last filled by the library
    scStatus,   \* SignalCore: _device_status.operate_status_t as last filled
    scOp,       \* SignalCore: last operation [name, par, arg, res]
    scRet,      \* SignalCore: value returned by the last operation
    scLog,      \* SignalCore: vendor-library calls issued by the last operation
    adCalls,    \* AD5760: number of driver operations called in this session
    adReg,      \* AD5760: text held by register "1", as its sequence of digits
    adOp,       \* AD5760: last operation [name, par, arg, step, start, res]
    adRet,      \* AD5760: value returned by the last operation
    adUpdates,  \* AD5760: values the last ramp passed to self.voltage(v_f), in order
    adLog,      \* AD5760: register calls issued by the last operation
    ksMeas,     \* Keysight: the device's traces, by number: [chan, par, fmt], chan 0 = not defined
    ksDev,      \* Keysight: device settings, by parameter name
    ksCache,    \* Keysight: value stored by the manual parameter sweep_time
    ksDataFmt,  \* Keysight: data_fmt of each TraceData parameter
    ksOp,       \* Keysight: last operation [name, par, n, arg, res]
    ksRet,      \* Keysight: value returned by the last operation
    ksLog       \* Keysight: transport calls issued by the last operation

agVars == <<agDev, agTimeout, agCache, agTrace, agOp, agRet, agLog>>

scVars == <<scHandle, scOpen, scLeaked, scDev, scRf, scStatus, scOp, scRet, scLog>>

adVars == <<adCalls, adReg, adOp, adRet, adUpdates, adLog>>

ksVars == <<ksMeas, ksDev, ksCache, ksDataFmt, ksOp, ksRet, ksLog>>

vars == <<session, agVars, scVars, adVars, ksVars>>

----------------------------------------------------------------------------
(* Bounds *)

MaxCount == 3       \* largest number of averages requested
MaxLeaked == 2      \* largest number of leaked handles followed
MaxTrace == 2       \* trace numbers followed (the driver declares trace_1..trace_16)
MaxPts == 2         \* largest number of sweep points of the Keysight device
MaxOps == 3         \* largest number of AD5760 operations in a session

----------------------------------------------------------------------------
(* Helpers *)

None == "None"

\* what a parameter cache holds before anything was stored in it
Empty == <<>>

Last(s) == s[Len(s)]

\* a transport call: write(cmd arg) or ask(cmd)
WriteCmd(cmd, arg) == [io |-> "write", cmd |-> cmd, arg |-> arg]
AskCmd(cmd) == [io |-> "ask", cmd |-> cmd, arg |-> "?"]

\* a change of the transport timeout (a call on the VISA resource)
TimeoutCmd(ms) == [io |-> "timeout", cmd |-> "timeout", arg |-> ms]

\* positions of log s that hold the transport call io(cmd)
Positions(s, io, cmd) == {i \in 1..Len(s) : s[i].io = io /\ s[i].cmd = cmd}

\* number of times the transport call io(cmd) occurs in log s
Count(s, io, cmd) == Cardinality(Positions(s, io, cmd))

----------------------------------------------------------------------------
(* Agilent_ENA_5071C *)

\* parameters declared with a set command and a value domain
AgSettable == {"num_points", "power", "averaging", "average_trigger",
               "avgnum", "trigger_source", "trform"}

\* parameters declared with set_cmd = None
AgManual == {"trace", "SweepData", "pdata", "sweep_time"}

\* SCPI command of each parameter (set: "<cmd> {}", get: "<cmd>?")
AgCmd(name) ==
    CASE name = "num_points"      -> ":SENS1:SWE:POIN"
      [] name = "power"           -> ":SOUR1:POW"
      [] name = "averaging"       -> ":SENS1:AVER"
      [] name = "average_trigger" -> ":TRIG:AVER"
      [] name = "avgnum"          -> ":SENS1:AVER:COUN"
      [] name = "trigger_source"  -> "TRIG:SOUR"
      [] name = "trform"          -> ":CALC1:FORM"
      [] name = "sweep_time"      -> ":SENS1:SWE:TIME"

AgTrigSources == {"INT", "EXT", "MAN", "BUS"}

AgFormats == {"PLOG", "MLOG", "PHAS", "GDEL", "SLIN", "SLOG", "SCOM", "SMIT",
              "SADM", "PLIN", "POL", "MLIN", "SWR", "REAL", "IMAG", "UPH", "PPH"}

\* vals of each parameter
AgValid(name, v) ==
    CASE name = "num_points"      -> v \in 1..1601
      [] name = "power"           -> v >= -85 /\ v <= 10
      [] name = "averaging"       -> v \in 0..1
      [] name = "average_trigger" -> v \in 0..1
      [] name = "avgnum"          -> v >= 1
      [] name = "trigger_source"  -> v \in AgTrigSources
      [] name = "trform"          -> v \in AgFormats

\* values a caller tries to set: in and out of the domain
AgProbe(name) ==
    CASE name = "num_points"      -> {0, 1, 1601, 1602}
      [] name = "power"           -> {-86, -85, 10, 11}
      [] name = "averaging"       -> {-1, 0, 1, 2}
      [] name = "average_trigger" -> {0, 1, 2}
      [] name = "avgnum"          -> 0..MaxCount
      [] name = "trigger_source"  -> {"INT", "MAN", "IMM"}
      [] name = "trform"          -> {"MLOG", "PHAS", "BOGUS"}

\* the value a caller tries to store in a parameter without set command
ManualProbe == 250

\* replies of the simulated device to :CALC:DATA:FDATA?
AgReplies == {<<1, 0, 2, 0>>, <<1, 2, 3>>}

AgStart ==
    /\ agDev \in [num_points : {1601}, power : {-85},
                  averaging : {0, 1}, average_trigger : {0},
                  avgnum : {1}, trigger_source : {"INT"},
                  trform : {"MLOG"}, sweep_time : {100, 250}]
    /\ agTimeout = 5000
    /\ agCache = [p \in AgManual |-> Empty]
    /\ agTrace \in AgReplies
    /\ agOp = [name |-> "init", par |-> None, arg |-> None, res |-> "ok"]
    /\ agRet = None
    /\ agLog = <<>>

\* the Agilent driver is not in use
AgIdle ==
    /\ agDev = None /\ agTimeout = 0 /\ agCache = None /\ agTrace = <<>>
    /\ agOp = [name |-> "idle", par |-> None, arg |-> None, res |-> "ok"]
    /\ agRet = None /\ agLog = <<>>

\* Parameter.set of a parameter with a set command: validate, then write
AgSet(name, v) ==
    /\ agOp' = [name |-> "set", par |-> name, arg |-> v,
                res |-> IF AgValid(name, v) THEN "ok" ELSE "ValidationError"]
    /\ agLog' = IF AgValid(name, v) THEN <<WriteCmd(AgCmd(name), v)>> ELSE <<>>
    /\ agDev' = IF AgValid(name, v) THEN [agDev EXCEPT ![name] = v] ELSE agDev
    /\ agRet' = None
    /\ UNCHANGED <<agTimeout, agCache, agTrace>>

\* Parameter.get of a parameter with a query command
AgGet(name) ==
    /\ agOp' = [name |-> "get", par |-> name, arg |-> None, res |-> "ok"]
    /\ agLog' = <<AskCmd(AgCmd(name))>>
    /\ agRet' = agDev[name]
    /\ UNCHANGED <<agDev, agTimeout, agCache, agTrace>>

\* Parameter.set of a parameter declared with set_cmd = None: qcodes makes it
\* a manual parameter, set stores the value and sends nothing
AgSetManual(name, v) ==
    /\ agOp' = [name |-> "set", par |-> name, arg |-> v, res |-> "ok"]
    /\ agLog' = <<>>
    /\ agCache' = [agCache EXCEPT ![name] = <<v>>]
    /\ agRet' = None
    /\ UNCHANGED <<agDev, agTimeout, agTrace>>

\* gettrace: the reply reshaped to (n/2, 2) and transposed; numpy refuses to
\* reshape an odd number of values
gettrace(reply) ==
    IF Len(reply) % 2 = 0
    THEN [res |-> "ok",
          val |-> << [i \in 1..(Len(reply) \div 2) |-> reply[2 * i - 1]],
                     [i \in 1..(Len(reply) \div 2) |-> reply[2 * i]] >>]
    ELSE [res |-> "ValueError", val |-> None]

\* trigger
trigger == <<WriteCmd(":TRIG:SING", None)>>

buffer_time == 500  \* ms

\* the averaging timeout without the number of averages
averageTimeout_OneSweep(number, s_per_trace) == s_per_trace + buffer_time

\* number*s_per_trace+buffer_time, the value average passes to self.timeout
averageTimeout(number, s_per_trace) == number * s_per_trace + buffer_time

\* average, lines 281-284: read the format, set PLOG and the BUS trigger
averagePrologue ==
    << AskCmd(":CALC1:FORM"), WriteCmd(":CALC1:FORM", "PLOG"),
       WriteCmd("TRIG:SOUR", "BUS") >>

\* averageSingle with hardware averaging left on
averageSingle_AveragingOn(dev, number) ==
    LET t == averageTimeout(number, dev.sweep_time)
        tr == gettrace(agTrace)
    IN [dev |-> [dev EXCEPT !.trform = "PLOG", !.trigger_source = "BUS",
                            !.averaging = 1, !.average_trigger = 0],
        timeout |-> t,
        log |-> averagePrologue \o
                << WriteCmd(":SENS1:AVER", 1), WriteCmd(":TRIG:AVER", 0),
                   AskCmd(":SENS1:SWE:TIME"), TimeoutCmd(t) >> \o
                trigger \o << AskCmd(":CALC:DATA:FDATA") >>,
        res |-> tr.res, val |-> tr.val]

\* average, number == 1
averageSingle(dev, number) ==
    LET t == averageTimeout(number, dev.sweep_time)
        tr == gettrace(agTrace)
    IN [dev |-> [dev EXCEPT !.trform = "PLOG", !.trigger_source = "BUS",
                            !.averaging = 0, !.average_trigger = 0],
        timeout |-> t,
        log |-> averagePrologue \o
                << WriteCmd(":SENS1:AVER", 0), WriteCmd(":TRIG:AVER", 0),
                   AskCmd(":SENS1:SWE:TIME"), TimeoutCmd(t) >> \o
                trigger \o << AskCmd(":CALC:DATA:FDATA") >>,
        res |-> tr.res, val |-> tr.val]

\* averageMulti that reads the trace without waiting for '*OPC?'
averageMulti_NoWait(dev, number, opc) ==
    LET t == averageTimeout(number, dev.sweep_time)
        tr == gettrace(agTrace)
    IN [dev |-> [dev EXCEPT !.trform = "PLOG", !.trigger_source = "BUS",
                            !.averaging = 1, !.average_trigger = 1,
                            !.avgnum = number],
        timeout |-> t,
        log |-> averagePrologue \o
                << WriteCmd(":SENS1:AVER", 1), WriteCmd(":TRIG:AVER", 1),
                   WriteCmd(":SENS1:AVER:COUN", number),
                   AskCmd(":SENS1:SWE:TIME"), TimeoutCmd(t),
                   WriteCmd(":TRIG:SING", None),
                   AskCmd(":CALC:DATA:FDATA") >>,
        res |-> tr.res, val |-> tr.val]

\* average, number > 1; opc is the outcome of the '*OPC?' round trip
averageMulti(dev, number, opc) ==
    LET t == averageTimeout(number, dev.sweep_time)
        tr == gettrace(agTrace)
    IN [dev |-> [dev EXCEPT !.trform = "PLOG", !.trigger_source = "BUS",
                            !.averaging = 1, !.average_trigger = 1,
                            !.avgnum = number],
        timeout |-> t,
        log |-> averagePrologue \o
                << WriteCmd(":SENS1:AVER", 1), WriteCmd(":TRIG:AVER", 1),
                   WriteCmd(":SENS1:AVER:COUN", number),
                   AskCmd(":SENS1:SWE:TIME"), TimeoutCmd(t),
                   WriteCmd(":TRIG:SING", None), AskCmd("*OPC") >> \o
                (IF opc = "ok" THEN << AskCmd(":CALC:DATA:FDATA") >> ELSE <<>>),
        res |-> IF opc = "ok" THEN tr.res ELSE "Timeout",
        val |-> IF opc = "ok" THEN tr.val ELSE None]

\* average(number)
averageRun(dev, timeout, number, opc) ==
    IF number <= 0
    THEN [dev |-> dev, timeout |-> timeout, log |-> <<>>,
          res |-> "AssertionError", val |-> None]
    ELSE IF number = 1 THEN averageSingle(dev, number)
    ELSE averageMulti(dev, number, opc)

average(number, opc) ==
    LET r == averageRun(agDev, agTimeout, number, opc)
    IN /\ number > 1 \/ opc = "ok"
       /\ agOp' = [name |-> "average", par |-> None, arg |-> number, res |-> r.res]
       /\ agDev' = r.dev
       /\ agTimeout' = r.timeout
       /\ agLog' = r.log
       /\ agRet' = r.val
       /\ UNCHANGED <<agCache, agTrace>>

\* savetrace(avgnum, savedir) with a directory given
savetrace(avgnum, opc) ==
    LET prev_trform == agDev.trform
        r == averageRun([agDev EXCEPT !.trform = "PLOG"], agTimeout, avgnum, opc)
        done == r.res = "ok"
    IN /\ avgnum > 1 \/ opc = "ok"
       /\ agOp' = [name |-> "savetrace", par |-> None, arg |-> avgnum, res |-> r.res]
       /\ agDev' = IF done
                   THEN [r.dev EXCEPT !.trform = prev_trform, !.trigger_source = "INT"]
                   ELSE r.dev
       /\ agTimeout' = r.timeout
       /\ agLog' = << AskCmd(":SENS1:FREQ:DATA"), AskCmd(":CALC1:FORM"),
                      WriteCmd(":CALC1:FORM", "PLOG") >> \o r.log \o
                   (IF done THEN << WriteCmd(":CALC1:FORM", prev_trform),
                                    WriteCmd("TRIG:SOUR", "INT") >>
                    ELSE <<>>)
       /\ agRet' = None
       /\ UNCHANGED <<agCache, agTrace>>

\* parameters whose vals is an Enum of strings; the others of AgSettable take
\* Ints or Numbers
AgEnumParams == {"trigger_source", "trform"}

\* get_bundle, one pass of the loop after the other: the key is called with
\* str(value) as its argument, which is a set of the parameter and returns
\* None. A key that is no attribute of the driver raises the Exception that
\* names it; a string given to Ints or Numbers raises TypeError in the
\* validator, a string outside an Enum raises ValueError.
RECURSIVE bundleRun(_, _, _, _)
bundleRun(items, dev, log, ret) ==
    IF items = <<>>
    THEN [dev |-> dev, log |-> log, ret |-> ret, res |-> "ok", key |-> None]
    ELSE LET key == Head(items).key
             v == Head(items).v
             stop(res) == [dev |-> dev, log |-> log, ret |-> ret, res |-> res,
                           key |-> key]
         IN IF key \notin AgSettable \cup AgManual THEN stop("Exception")
            ELSE IF key \notin AgEnumParams THEN stop("TypeError")
            ELSE IF ~(Head(items).str /\ AgValid(key, v)) THEN stop("ValueError")
            ELSE bundleRun(Tail(items), [dev EXCEPT ![key] = v],
                           Append(log, WriteCmd(AgCmd(key), v)),
                           Append(ret, <<key, None>>))

\* get_bundle(bundle); the dictionary is a sequence of its items
get_bundle(bundle) ==
    LET r == bundleRun(bundle, agDev, <<>>, <<>>)
    IN /\ agOp' = [name |-> "get_bundle", par |-> r.key,
                   arg |-> [i \in 1..Len(bundle) |-> bundle[i].key], res |-> r.res]
       /\ agDev' = r.dev
       /\ agLog' = r.log
       /\ agRet' = IF r.res = "ok" THEN r.ret ELSE None
       /\ UNCHANGED <<agTimeout, agCache, agTrace>>

\* dictionaries a caller passes to get_bundle
AgBundles ==
    << << [key |-> "trigger_source", str |-> TRUE, v |-> "MAN"] >>,
      << [key |-> "num_points", str |-> FALSE, v |-> 201] >>,
      << [key |-> "bogus", str |-> FALSE, v |-> 1] >>,
      << [key |-> "trform", str |-> TRUE, v |-> "PHAS"],
         [key |-> "bogus", str |-> FALSE, v |-> 1] >> >>

\* parameters the averaged acquisition works with
AgAcquireParams == {"averaging", "average_trigger", "avgnum", "trigger_source", "trform"}

AcquireNext ==
    /\ session = "agilent"
    /\ UNCHANGED <<session, scVars, adVars, ksVars>>
    /\ \/ \E name \in AgAcquireParams : \E v \in AgProbe(name) : AgSet(name, v)
       \/ \E name \in AgAcquireParams \cup {"sweep_time"} : AgGet(name)
       \/ \E number \in 0..MaxCount : \E opc \in {"ok", "timeout"} : average(number, opc)
       \/ \E number \in 1..MaxCount : \E opc \in {"ok", "timeout"} : savetrace(number, opc)
       \/ \E b \in 1..Len(AgBundles) : get_bundle(AgBundles[b])

----------------------------------------------------------------------------
(* AD5760 *)

\* Voltages are counted in units of 2^-18 V, currents in units of 2^-18/100 A:
\* every value ask() can return (a multiple of 20/2^20 V) and every probe
\* below is a whole number of units, and the driver's float arithmetic is
\* exact on them.
Volt == 262144

\* vals of voltage: Numbers(-10, 10); of current: Numbers(-0.1, 0.1), which
\* is the same range in units
AdValid(v) == v >= -10 * Volt /\ v <= 10 * Volt

\* int(x) of the quotient a / b, b > 0: rounds towards zero
TruncDiv(a, b) == IF a >= 0 THEN a \div b ELSE -((-a) \div b)

\* str(n), n >= 0, as a sequence of decimal digits
RECURSIVE DecDigits(_)
DecDigits(n) == IF n < 10 THEN <<n>> ELSE Append(DecDigits(n \div 10), n % 10)

\* int(text, 16) of a sequence of digits
RECURSIVE HexValue(_)
HexValue(d) ==
    IF Len(d) = 0 THEN 0
    ELSE 16 * HexValue(SubSeq(d, 1, Len(d) - 1)) + d[Len(d)]

\* ask: (float(int(ReadRegister("1"), 16)) - 524288) * 20 / 1048576
ask(reg) == (HexValue(reg) - 524288) * 5

\* write: the text of int((output_level + 10) * 65536 / 20), for a level the
\* validator lets through
write(output_level) == DecDigits(TruncDiv(output_level + 10 * Volt, 80))

AdRead(reg) == [fn |-> "ReadRegister", val |-> reg]
AdWrite(reg) == [fn |-> "WriteRegister", val |-> reg]

\* time.sleep(delay)
AdSleep == [fn |-> "sleep", val |-> <<>>]

\* register texts the device may hold when the driver connects
\* ("80000": 0 V, "8000": -9.375 V, "100000": 10 V)
AdInitRegs == { <<8, 0, 0, 0, 0>>, <<8, 0, 0, 0>>, <<1, 0, 0, 0, 0, 0>> }

AdStart ==
    /\ adCalls = 0
    /\ adReg \in AdInitRegs
    /\ adOp = [name |-> "init", par |-> None, arg |-> 0, step |-> 0,
               start |-> 0, res |-> "ok"]
    /\ adRet = None
    /\ adUpdates = <<>>
    /\ adLog = <<>>

\* the AD5760 driver is not in use
AdIdle ==
    /\ adCalls = 0 /\ adReg = <<>>
    /\ adOp = [name |-> "idle", par |-> None, arg |-> 0, step |-> 0,
               start |-> 0, res |-> "ok"]
    /\ adRet = None /\ adUpdates = <<>> /\ adLog = <<>>

\* AdSet that writes the register before the validator has its say
AdSet_WriteFirst(name, v) ==
    /\ adOp' = [name |-> "set", par |-> name, arg |-> v, step |-> 0, start |-> 0,
                res |-> IF AdValid(v) THEN "ok" ELSE "ValidationError"]
    /\ adReg' = write(v)
    /\ adLog' = << AdWrite(write(v)) >>
    /\ adRet' = None
    /\ adUpdates' = <<>>

\* voltage(v) / current(v): validate, then _get_set_volt / _get_set_current,
\* which write v (current: v * 100 V, the same number of units)
AdSet(name, v) ==
    /\ adOp' = [name |-> "set", par |-> name, arg |-> v, step |-> 0, start |-> 0,
                res |-> IF AdValid(v) THEN "ok" ELSE "ValidationError"]
    /\ adReg' = IF AdValid(v) THEN write(v) ELSE adReg
    /\ adLog' = IF AdValid(v) THEN << AdWrite(write(v)) >> ELSE <<>>
    /\ adRet' = None
    /\ adUpdates' = <<>>

\* voltage() / current(): _get_volt / _get_current (ask() / 100 A, the same
\* number of units)
AdGet(name) ==
    /\ adOp' = [name |-> "get", par |-> name, arg |-> 0, step |-> 0, start |-> 0,
                res |-> "ok"]
    /\ adLog' = << AdRead(adReg) >>
    /\ adRet' = ask(adReg)
    /\ adUpdates' = <<>>
    /\ UNCHANGED adReg

\* a ReadRegister call that raises
AdReadFailed == [fn |-> "ReadRegister raises", val |-> <<>>]

\* state(): try ask() and return True, return False on any exception; out is
\* the outcome of the ReadRegister call
state(out) ==
    /\ adOp' = [name |-> "state", par |-> None, arg |-> 0, step |-> 0, start |-> 0,
                res |-> "ok"]
    /\ adLog' = IF out = "ok" THEN << AdRead(adReg) >> ELSE << AdReadFailed >>
    /\ adRet' = (out = "ok")
    /\ adUpdates' = <<>>
    /\ UNCHANGED adReg

\* rampPasses with one pass when the target is the present value
rampPasses_PassOnEqual(v_in, ramp_to, step) ==
    IF ramp_to > v_in THEN TruncDiv((ramp_to - v_in) + step + step, step)
    ELSE IF ramp_to < v_in THEN TruncDiv((v_in - ramp_to) + step, step)
    ELSE 1

\* number of passes of the loop of ramp_trial
rampPasses(v_in, ramp_to, step) ==
    IF ramp_to > v_in THEN TruncDiv((ramp_to - v_in) + step + step, step)
    ELSE IF ramp_to < v_in THEN TruncDiv((v_in - ramp_to) + step, step)
    ELSE 0

\* rampValue that adds the step whatever the direction
rampValue_Upward(v_in, ramp_to, step, i) == v_in + i * step

\* v_f in pass i of the loop
rampValue(v_in, ramp_to, step, i) ==
    IF ramp_to > v_in THEN v_in + i * step ELSE v_in - i * step

\* ramp_trial(ramp_to, step, delay), step > 0: the loop stops at the first
\* value the validator of voltage rejects
ramp_trial(name, ramp_to, step) ==
    LET v_in == ask(adReg)
        n == rampPasses(v_in, ramp_to, step)
        bad == {i \in 1..n : ~AdValid(rampValue(v_in, ramp_to, step, i))}
        stop == IF bad = {} THEN n
                ELSE CHOOSE i \in bad : \A j \in bad : i <= j
        done == IF bad = {} THEN n ELSE stop - 1
    IN /\ adOp' = [name |-> name, par |-> "voltage", arg |-> ramp_to,
                   step |-> step, start |-> v_in,
                   res |-> IF bad = {} THEN "ok" ELSE "ValidationError"]
       /\ adUpdates' = [i \in 1..stop |-> rampValue(v_in, ramp_to, step, i)]
       /\ adLog' = << AdRead(adReg) >> \o
                   [k \in 1..(2 * done) |->
                       IF k % 2 = 1
                       THEN AdWrite(write(rampValue(v_in, ramp_to, step, (k + 1) \div 2)))
                       ELSE AdSleep]
       /\ adReg' = IF done = 0 THEN adReg
                   ELSE write(rampValue(v_in, ramp_to, step, done))
       /\ adRet' = None

\* ramp_voltage(ramp_to, step, delay)
ramp_voltage(ramp_to, step) == ramp_trial("ramp_voltage", ramp_to, step)

\* ramp_current(ramp_to, step, delay): ramp_trial(ramp_to*100, step*100, delay)
ramp_current(ramp_to, step) == ramp_trial("ramp_current", ramp_to, step)

\* values passed to voltage / current
AdProbe == {-10 * Volt - 1, -10 * Volt, 0, Volt, 10 * Volt + 1}

\* ramp targets and steps
AdTargets == {-10 * Volt, 0, Volt}
AdSteps == {Volt \div 4, 4 * Volt}

----------------------------------------------------------------------------
(* SignalCore_SC5511A *)

\* Handles: every sc5511a_open_device returns a new handle, so a handle the
\* driver has overwritten is never seen again; the model keeps the state of
\* the handle stored in _handle and counts the overwritten open ones.

ScParams == {"power", "output_status", "frequency", "reference_source",
             "auto_level_disable"}

\* vals of each parameter (frequency in MHz)
ScValid(name, v) ==
    CASE name = "power"              -> v >= -144 /\ v <= 19
      [] name = "output_status"      -> v >= 0 /\ v <= 1
      [] name = "frequency"          -> v >= 0 /\ v <= 20000
      [] name = "reference_source"   -> v >= 0 /\ v <= 1
      [] name = "auto_level_disable" -> v >= 0 /\ v <= 1
      [] name = "temperature"        -> v >= 0 /\ v <= 200

\* a vendor-library call; live tells whether the handle passed was open
ScCall(fn, h) == [fn |-> fn, live |-> (h = "open")]

ScOpenCall == [fn |-> "open_device", live |-> TRUE]

ScCount(s, fn) == Cardinality({i \in 1..Len(s) : s[i].fn = fn})

\* manufacture_date fields a device may hold, a c_uint32 kept as its four
\* bytes, most significant first: 3/17/2021 with the low byte 0 and 255, and
\* all 32 bits set
ScDates == { <<21, 17, 3, 0>>, <<21, 17, 3, 255>>, <<255, 255, 255, 255>> }

\* the 8 binary digits of a byte
Bits8(x) == [i \in 1..8 |-> (x \div 2^(8 - i)) % 2]

\* f"{date_int:032b}"
Bits32(date_int) ==
    Bits8(date_int[1]) \o Bits8(date_int[2]) \o Bits8(date_int[3]) \o
    Bits8(date_int[4])

\* int(text, 2) of a sequence of bits
RECURSIVE BinValue(_)
BinValue(b) ==
    IF Len(b) = 0 THEN 0
    ELSE 2 * BinValue(SubSeq(b, 1, Len(b) - 1)) + b[Len(b)]

\* date_decode that takes the day for the month
date_decode_DayFirst(date_int) ==
    LET date_str == Bits32(date_int)
        yr == <<2, 0>> \o DecDigits(BinValue(SubSeq(date_str, 1, 8)))
        month == DecDigits(BinValue(SubSeq(date_str, 17, 24)))
        day == DecDigits(BinValue(SubSeq(date_str, 9, 16)))
    IN << day, month, yr >>

\* date_decode: f"{date_int:032b}" cut into date_str[:8], date_str[8:16] and
\* date_str[16:24]; the text "month/day/yr" is kept as its three numerals
date_decode(date_int) ==
    LET date_str == Bits32(date_int)
        yr == <<2, 0>> \o DecDigits(BinValue(SubSeq(date_str, 1, 8)))
        month == DecDigits(BinValue(SubSeq(date_str, 17, 24)))
        day == DecDigits(BinValue(SubSeq(date_str, 9, 16)))
    IN << month, day, yr >>

\* state after construction: the constructor's handle is closed, get_idn and
\* do_set_auto_level_disable(0) have run, and the reference was locked to
\* external if the (cached) status said it was not
ScStart ==
    \E debug \in BOOLEAN : \E date \in ScDates :
    \E d0 \in [rf1_out_enable : {0, 1}, ext_ref_lock_enable : {0, 1}] :
        LET st0 == IF debug THEN d0
                   ELSE [rf1_out_enable |-> 0, ext_ref_lock_enable |-> 0]
        IN /\ scHandle = "closed"
           /\ scOpen = FALSE
           /\ scLeaked = 0
           /\ scDev = [rf1_freq |-> 5000, rf_level |-> 0,
                       rf1_out_enable |-> d0.rf1_out_enable,
                       ext_ref_lock_enable |->
                           IF st0.ext_ref_lock_enable = 0 THEN 1
                           ELSE d0.ext_ref_lock_enable,
                       auto_pwr_disable |-> 1,
                       device_temp |-> 30,
                       manufacture_date |-> date]
           /\ scRf = [rf1_freq |-> 0, rf_level |-> 0]
           /\ scStatus = [rf1_out_enable |-> st0.rf1_out_enable,
                          ext_ref_lock_enable |-> st0.ext_ref_lock_enable,
                          auto_pwr_disable |-> 0]
           /\ scOp = [name |-> "init", par |-> None, arg |-> None, res |-> "ok"]
           /\ scRet = None
           /\ scLog = <<>>

\* the SignalCore driver is not in use
ScIdle ==
    /\ scHandle = None /\ scOpen = FALSE /\ scLeaked = 0 /\ scDev = None
    /\ scRf = None /\ scStatus = None
    /\ scOp = [name |-> "idle", par |-> None, arg |-> None, res |-> "ok"]
    /\ scRet = None /\ scLog = <<>>

\* self._handle = open_device(...): the handle stored before is lost
ScOverwrite == scLeaked + (IF scHandle = "open" THEN 1 ELSE 0)

\* an operation that opens a handle, makes one library call and closes the
\* handle; out = "raise" when the library call raises, which skips the rest
ScPerCall(op, fn, out, dev, rf, status, ret) ==
    /\ ScOverwrite <= MaxLeaked
    /\ scLeaked' = ScOverwrite
    /\ scLog' = << ScOpenCall, ScCall(fn, "open") >> \o
                (IF out = "ok" THEN << ScCall("close_device", "open") >> ELSE <<>>)
    /\ scHandle' = IF out = "ok" THEN "closed" ELSE "open"
    /\ scOp' = [op EXCEPT !.res = IF out = "ok" THEN "ok" ELSE "OSError"]
    /\ scDev' = IF out = "ok" THEN dev ELSE scDev
    /\ scRf' = IF out = "ok" THEN rf ELSE scRf
    /\ scStatus' = IF out = "ok" THEN status ELSE scStatus
    /\ scRet' = IF out = "ok" THEN ret ELSE None
    /\ UNCHANGED scOpen

\* do_set_frequency / do_set_power: as ScPerCall unless _open is set, then the
\* stored handle is used as it is and stays as it is.  A call on a closed
\* handle may or may not reach the device (took)
ScBatchCall(op, fn, out, took, dev) ==
    IF ~scOpen
    THEN took /\ ScPerCall(op, fn, out, dev, scRf, scStatus, None)
    ELSE /\ (scHandle = "open") => took
         /\ scLog' = << ScCall(fn, scHandle) >>
         /\ scOp' = [op EXCEPT !.res = IF out = "ok" THEN "ok" ELSE "OSError"]
         /\ scDev' = IF out = "ok" /\ took THEN dev ELSE scDev
         /\ scRet' = None
         /\ UNCHANGED <<scHandle, scOpen, scLeaked, scRf, scStatus>>

ScStatusOfDev == [rf1_out_enable |-> scDev.rf1_out_enable,
                  ext_ref_lock_enable |-> scDev.ext_ref_lock_enable,
                  auto_pwr_disable |-> scDev.auto_pwr_disable]

ScRfOfDev == [rf1_freq |-> scDev.rf1_freq, rf_level |-> scDev.rf_level]

do_set_output_status(op, enable, out) ==
    ScPerCall(op, "set_output", out,
              [scDev EXCEPT !.rf1_out_enable = enable], scRf, scStatus, None)

do_get_output_status(op, out) ==
    ScPerCall(op, "get_device_status", out, scDev, scRf, ScStatusOfDev,
              scDev.rf1_out_enable)

do_set_frequency(op, frequency, out, took) ==
    ScBatchCall(op, "set_freq", out, took, [scDev EXCEPT !.rf1_freq = frequency])

do_get_frequency(op, out) ==
    ScPerCall(op, "get_rf_parameters", out, scDev, ScRfOfDev, scStatus,
              scDev.rf1_freq)

do_set_reference_source(op, lock_to_external, out) ==
    ScPerCall(op, "set_clock_reference", out,
              [scDev EXCEPT !.ext_ref_lock_enable = lock_to_external],
              scRf, scStatus, None)

\* opens and closes a handle and returns the field of the status structure
\* without asking the library to fill it
do_get_reference_source(op) ==
    /\ ScOverwrite <= MaxLeaked
    /\ scLeaked' = ScOverwrite
    /\ scLog' = << ScOpenCall, ScCall("close_device", "open") >>
    /\ scHandle' = "closed"
    /\ scOp' = op
    /\ scRet' = scStatus.ext_ref_lock_enable
    /\ UNCHANGED <<scOpen, scDev, scRf, scStatus>>

do_set_power(op, power, out, took) ==
    ScBatchCall(op, "set_level", out, took, [scDev EXCEPT !.rf_level = power])

do_get_power(op, out) ==
    ScPerCall(op, "get_rf_parameters", out, scDev, ScRfOfDev, scStatus,
              scDev.rf_level)

\* ScInvert that passes every value on as it is
ScInvert_AsIs(x) == x

\* 0 and 1 are swapped, any other value is passed on
ScInvert(x) == IF x = 1 THEN 0 ELSE IF x = 0 THEN 1 ELSE x

do_set_auto_level_disable(op, enable, out) ==
    ScPerCall(op, "set_auto_level_disable", out,
              [scDev EXCEPT !.auto_pwr_disable = ScInvert(enable)],
              scRf, scStatus, None)

do_get_auto_level_disable(op, out) ==
    ScPerCall(op, "get_device_status", out, scDev, scRf, ScStatusOfDev,
              ScInvert(scDev.auto_pwr_disable))

do_get_device_temp(op, out) ==
    ScPerCall(op, "get_temperature", out, scDev, scRf, scStatus,
              scDev.device_temp)

get_idn(out) ==
    ScPerCall([name |-> "get_idn", par |-> None, arg |-> None, res |-> "ok"],
              "get_device_info", out, scDev, scRf, scStatus,
              [model |-> "SC5511A",
               manufacture_date |-> date_decode(scDev.manufacture_date)])

set_open(name, open) ==
    /\ scOp' = [name |-> name, par |-> None, arg |-> open, res |-> "ok"]
    /\ scRet' = IF name = "set_open" THEN TRUE ELSE None
    /\ IF open /\ ~scOpen
       THEN /\ ScOverwrite <= MaxLeaked
            /\ scLeaked' = ScOverwrite
            /\ scLog' = << ScOpenCall >>
            /\ scHandle' = "open"
            /\ scOpen' = TRUE
       ELSE IF ~open /\ scOpen
       THEN /\ scLog' = << ScCall("close_device", scHandle) >>
            /\ scHandle' = "closed"
            /\ scOpen' = FALSE
            /\ UNCHANGED scLeaked
       ELSE /\ scLog' = <<>>
            /\ UNCHANGED <<scHandle, scOpen, scLeaked>>
    /\ UNCHANGED <<scDev, scRf, scStatus>>

close == set_open("close", FALSE)

\* Parameter.set: validate against vals, then run the set command
ScSet(name, v, out, took) ==
    LET op == [name |-> "set", par |-> name, arg |-> v, res |-> "ok"]
    IN IF ~ScValid(name, v)
       THEN /\ out = "ok" /\ took
            /\ scOp' = [op EXCEPT !.res = "ValidationError"]
            /\ scLog' = <<>>
            /\ scRet' = None
            /\ UNCHANGED <<scHandle, scOpen, scLeaked, scDev, scRf, scStatus>>
       ELSE CASE name = "power" -> do_set_power(op, v, out, took)
              [] name = "frequency" -> do_set_frequency(op, v, out, took)
              [] name = "output_status" -> took /\ do_set_output_status(op, v, out)
              [] name = "reference_source" -> took /\ do_set_reference_source(op, v, out)
              [] name = "auto_level_disable" -> took /\ do_set_auto_level_disable(op, v, out)

\* Parameter.get: run the get command
ScGet(name, out) ==
    LET op == [name |-> "get", par |-> name, arg |-> None, res |-> "ok"]
    IN CASE name = "power" -> do_get_power(op, out)
         [] name = "frequency" -> do_get_frequency(op, out)
         [] name = "output_status" -> do_get_output_status(op, out)
         [] name = "reference_source" -> out = "ok" /\ do_get_reference_source(op)
         [] name = "auto_level_disable" -> do_get_auto_level_disable(op, out)
         [] name = "temperature" -> do_get_device_temp(op, out)

\* Parameter.set of temperature, which is declared without set_cmd
ScSetReadOnly(name, v) ==
    /\ scOp' = [name |-> "set", par |-> name, arg |-> v, res |-> "NotImplementedError"]
    /\ scLog' = <<>>
    /\ scRet' = None
    /\ UNCHANGED <<scHandle, scOpen, scLeaked, scDev, scRf, scStatus>>

\* values passed to set while the handle discipline is followed
ScHandleProbe(name) ==
    CASE name = "power"              -> {0, 20}
      [] name = "output_status"      -> {1}
      [] name = "frequency"          -> {5000, 6000}
      [] name = "reference_source"   -> {1}
      [] name = "auto_level_disable" -> {0}

\* values a caller tries to set: in and out of the domain
ScProbe(name) ==
    CASE name = "power"              -> {-145, 19, 20}
      [] name = "output_status"      -> {-1, 0, 1, 2}
      [] name = "frequency"          -> {-1, 20000, 20001}
      [] name = "reference_source"   -> {-1, 0, 1, 2}
      [] name = "auto_level_disable" -> {-1, 0, 1, 2}

Outcomes == {"ok", "raise"}

SignalCoreNext ==
    /\ session = "signalcore"
    /\ UNCHANGED <<session, agVars, adVars, ksVars>>
    /\ \/ \E name \in ScParams : \E v \in ScHandleProbe(name) :
              \E out \in Outcomes : \E took \in BOOLEAN : ScSet(name, v, out, took)
       \/ \E name \in ScParams \cup {"temperature"} : \E out \in Outcomes :
              ScGet(name, out)
       \/ \E out \in Outcomes : get_idn(out)
       \/ \E open \in BOOLEAN : set_open("set_open", open)
       \/ close



----------------------------------------------------------------------------
(* Keysight_P9374A *)

NumChannels == 8    \* get_existing_traces_by_channel asks channels 1..8

KsSParams == {"S11", "S12", "S21", "S22"}

KsNoTrace == [chan |-> 0, par |-> "S21", fmt |-> "MLOG"]

KsAsk(cmd, n) == [io |-> "ask", cmd |-> cmd, n |-> n, arg |-> "?"]
KsWrite(cmd, n, arg) == [io |-> "write", cmd |-> cmd, n |-> n, arg |-> arg]

\* the elements of a set of numbers in increasing order
RECURSIVE SortedSeq(_)
SortedSeq(S) ==
    IF S = {} THEN <<>>
    ELSE LET m == CHOOSE x \in S : \A y \in S : x <= y
         IN <<m>> \o SortedSeq(S \ {m})

RECURSIVE Concat(_)
Concat(ss) == IF ss = <<>> THEN <<>> ELSE Head(ss) \o Concat(Tail(ss))

\* the device's reply to CALC<c>:PAR:CAT:EXT?, quotes stripped: "NO CATALOG",
\* nothing at all (a channel of ksDev.bare), or
\* name,parameter,name,parameter,...; a name is CH<c>_<par>_<n>, kept as
\* its parts
catalogReply(meas, c) ==
    LET ns == SortedSeq({n \in DOMAIN meas : meas[n].chan = c})
    IN IF ns = <<>> THEN (IF c \in ksDev.bare THEN <<>> ELSE "NO CATALOG")
       ELSE Concat([k \in 1..Len(ns) |->
                       << <<"CH", c, meas[ns[k]].par, ns[k]>>, meas[ns[k]].par >>])

\* traces[::2], traces[1::2] and the zip: (int(name.split('_')[-1]), parameter)
parseCatalog(traces) ==
    [k \in 1..(Len(traces) \div 2) |-> << Last(traces[2 * k - 1]), traces[2 * k] >>]

\* get_existing_traces_by_channel that stops at the first "NO CATALOG"
get_existing_traces_by_channel_Break(meas) ==
    LET reply == [i \in 1..NumChannels |-> catalogReply(meas, i)]
    IN [c \in {i \in 1..NumChannels :
                  \A j \in 1..i : reply[j] # "NO CATALOG"} |->
           parseCatalog(reply[c])]

\* get_existing_traces_by_channel: the channels that have a catalog, with
\* their (number, parameter) lists
get_existing_traces_by_channel(meas) ==
    LET reply == [i \in 1..NumChannels |-> catalogReply(meas, i)]
    IN [c \in {i \in 1..NumChannels : reply[i] # "NO CATALOG"} |->
           parseCatalog(reply[c])]

catalogLog == [i \in 1..NumChannels |-> KsAsk("CALC:PAR:CAT:EXT", i)]

\* get_existing_traces: the (channel, number, parameter) triples, by channel
get_existing_traces(meas) ==
    LET d == get_existing_traces_by_channel(meas)
        cs == SortedSeq(DOMAIN d)
    IN Concat([k \in 1..Len(cs) |->
                  [j \in 1..Len(d[cs[k]]) |-> << cs[k], d[cs[k]][j][1], d[cs[k]][j][2] >>]])

\* the second list get_existing_traces returns: the trace numbers
traceNumbers(meas) ==
    LET t == get_existing_traces(meas)
    IN {t[k][2] : k \in 1..Len(t)}

\* replies of the simulated device for an existing trace
replyX(n) == [i \in 1..ksDev.num_points |-> 1000 + i]

replyFDATA(n, fmt) ==
    IF fmt = "POL" THEN [i \in 1..(2 * ksDev.num_points) |-> 10 * n + i]
    ELSE [i \in 1..ksDev.num_points |-> 10 * n + i]

\* Trace._get_xdata; traces is the list get_existing_traces returned
KsXdata(n, traces) ==
    IF n \notin traces
    THEN [log |-> catalogLog, val |-> <<>>]
    ELSE [log |-> Append(catalogLog, KsAsk("CALC:MEAS:X", n)), val |-> replyX(n)]

\* Trace._get_npts
KsNpts(n, traces) ==
    [log |-> KsXdata(n, traces).log, val |-> Len(KsXdata(n, traces).val)]

\* the test all three per-trace parameters start with
KsNotOn(n, traces) == KsNpts(n, traces).val = 0 \/ n \notin traces

\* the transport calls of get_existing_traces and of the test
KsGuardLog(n, traces) == catalogLog \o KsNpts(n, traces).log

\* KsDecode that takes the imaginary part first
KsDecode_Swapped(data, data_fmt) ==
    IF data_fmt = "POL" /\ Len(data) % 2 = 0
    THEN [i \in 1..(Len(data) \div 2) |-> << data[2 * i], data[2 * i - 1] >>]
    ELSE data

\* reshape to pairs and combine, for 'POL' and an even number of values; a
\* complex point is kept as <<real, imaginary>>
KsDecode(data, data_fmt) ==
    IF data_fmt = "POL" /\ Len(data) % 2 = 0
    THEN [i \in 1..(Len(data) \div 2) |-> << data[2 * i - 1], data[2 * i] >>]
    ELSE data

KsRead(par, n, log, ret) ==
    /\ ksOp' = [name |-> "get", par |-> par, n |-> n, arg |-> None, res |-> "ok"]
    /\ ksLog' = log
    /\ ksRet' = ret
    /\ UNCHANGED <<ksMeas, ksDev, ksCache, ksDataFmt>>

\* TraceData_read that leaves the trace in the acquisition format
TraceData_read_NoRestore(n, traces, out) ==
    LET fmt == ksDataFmt[n]
        prev_fmt == ksMeas[n].fmt
        during == IF fmt # None THEN fmt ELSE prev_fmt
    IN /\ ksOp' = [name |-> "get", par |-> "data", n |-> n, arg |-> None,
                   res |-> IF out = "ok" THEN "ok" ELSE "VisaIOError"]
       /\ ksLog' = KsGuardLog(n, traces) \o
                   (IF fmt # None
                    THEN << KsAsk("CALC:MEAS:FORM", n),
                            KsWrite("CALC:MEAS:FORM", n, fmt) >>
                    ELSE <<>>) \o
                   << KsAsk("CALC:MEAS:DATA:FDATA", n) >>
       /\ ksRet' = IF out = "ok" THEN KsDecode(replyFDATA(n, during), fmt) ELSE None
       /\ ksMeas' = [ksMeas EXCEPT ![n].fmt = during]
       /\ UNCHANGED <<ksDev, ksCache, ksDataFmt>>

\* TraceData.get_raw, lines 64-77: the read of a trace that is on; out is the
\* outcome of the CALC:MEAS<n>:DATA:FDATA? query. No statement of get_raw
\* catches an exception, so the write that puts the format back is not
\* reached when the query raises.
TraceData_read(n, traces, out) ==
    LET fmt == ksDataFmt[n]
        prev_fmt == ksMeas[n].fmt
        during == IF fmt # None THEN fmt ELSE prev_fmt
    IN /\ ksOp' = [name |-> "get", par |-> "data", n |-> n, arg |-> None,
                   res |-> IF out = "ok" THEN "ok" ELSE "VisaIOError"]
       /\ ksLog' = KsGuardLog(n, traces) \o
                   (IF fmt # None
                    THEN << KsAsk("CALC:MEAS:FORM", n),
                            KsWrite("CALC:MEAS:FORM", n, fmt) >>
                    ELSE <<>>) \o
                   << KsAsk("CALC:MEAS:DATA:FDATA", n) >> \o
                   (IF fmt # None /\ out = "ok"
                    THEN << KsWrite("CALC:MEAS:FORM", n, prev_fmt) >>
                    ELSE <<>>)
       /\ ksRet' = IF out = "ok" THEN KsDecode(replyFDATA(n, during), fmt) ELSE None
       /\ ksMeas' = IF out = "ok" THEN ksMeas ELSE [ksMeas EXCEPT ![n].fmt = during]
       /\ UNCHANGED <<ksDev, ksCache, ksDataFmt>>

\* TraceData.get_raw without the test for the trace
TraceData_get_raw_Unguarded(n, out) ==
    TraceData_read(n, traceNumbers(ksMeas), out)

\* TraceData.get_raw
TraceData_get_raw(n, out) ==
    LET traces == traceNumbers(ksMeas)
    IN IF KsNotOn(n, traces) THEN KsRead("data", n, KsGuardLog(n, traces), <<>>)
       ELSE TraceData_read(n, traces, out)

\* FrequencyData.get_raw
FrequencyData_get_raw(n) ==
    LET traces == traceNumbers(ksMeas)
    IN IF KsNotOn(n, traces) THEN KsRead("frequency", n, KsGuardLog(n, traces), <<>>)
       ELSE KsRead("frequency", n,
                   Append(KsGuardLog(n, traces), KsAsk("CALC:MEAS:X", n)), replyX(n))

\* SParameterData.get_raw
SParameterData_get_raw(n) ==
    LET traces == traceNumbers(ksMeas)
    IN IF KsNotOn(n, traces)
       THEN KsRead("s_parameter", n, KsGuardLog(n, traces), "Trace is not on")
       ELSE KsRead("s_parameter", n,
                   Append(KsGuardLog(n, traces), KsAsk(":CALC1:MEAS:PAR", n)),
                   ksMeas[n].par)

\* s_parameter(S_parameter): validate against the Enum, then SParameterData.set_raw
SParameterData_set(n, S_parameter) ==
    LET traces == traceNumbers(ksMeas)
        valid == S_parameter \in KsSParams
        sent == valid /\ ~KsNotOn(n, traces)
    IN /\ ksOp' = [name |-> "set", par |-> "s_parameter", n |-> n,
                   arg |-> S_parameter,
                   res |-> IF valid THEN "ok" ELSE "ValidationError"]
       /\ ksLog' = IF ~valid THEN <<>>
                   ELSE IF sent
                   THEN Append(KsGuardLog(n, traces),
                               KsWrite(":CALC1:MEAS:PAR", n, S_parameter))
                   ELSE KsGuardLog(n, traces)
       /\ ksMeas' = IF sent THEN [ksMeas EXCEPT ![n].par = S_parameter] ELSE ksMeas
       /\ ksRet' = None
       /\ UNCHANGED <<ksDev, ksCache, ksDataFmt>>

\* a call of get_existing_traces()
KsGetExistingTraces ==
    /\ ksOp' = [name |-> "get_existing_traces", par |-> None, n |-> 0,
                arg |-> None, res |-> "ok"]
    /\ ksLog' = catalogLog
    /\ ksRet' = get_existing_traces(ksMeas)
    /\ UNCHANGED <<ksMeas, ksDev, ksCache, ksDataFmt>>

\* add_trace(number, s_parameter): the measurement is defined on channel 1
add_trace(number, s_parameter) ==
    /\ ksOp' = [name |-> "add_trace", par |-> None, n |-> number,
                arg |-> s_parameter, res |-> "ok"]
    /\ ksLog' = << KsWrite("CALC:MEAS:DEF", number, s_parameter),
                   KsWrite("DISP:MEAS:FEED", number, 1) >>
    /\ ksMeas' = [ksMeas EXCEPT ![number] =
                     [chan |-> 1, par |-> s_parameter, fmt |-> "MLOG"]]
    /\ ksRet' = None
    /\ UNCHANGED <<ksDev, ksCache, ksDataFmt>>

remove_trace(number) ==
    /\ ksOp' = [name |-> "remove_trace", par |-> None, n |-> number,
                arg |-> None, res |-> "ok"]
    /\ ksLog' = << KsWrite("CALC:MEAS:DEL", number, None) >>
    /\ ksMeas' = [ksMeas EXCEPT ![number] = KsNoTrace]
    /\ ksRet' = None
    /\ UNCHANGED <<ksDev, ksCache, ksDataFmt>>

clear_all_traces ==
    /\ ksOp' = [name |-> "clear_all_traces", par |-> None, n |-> 0,
                arg |-> None, res |-> "ok"]
    /\ ksLog' = << KsWrite("CALC:MEAS:DEL:ALL", 0, None) >>
    /\ ksMeas' = [n \in DOMAIN ksMeas |-> KsNoTrace]
    /\ ksRet' = None
    /\ UNCHANGED <<ksDev, ksCache, ksDataFmt>>

\* trace_<n>.data.data_fmt = fmt
KsSetDataFmt(n, fmt) ==
    /\ ksOp' = [name |-> "data_fmt", par |-> None, n |-> n, arg |-> fmt, res |-> "ok"]
    /\ ksLog' = <<>>
    /\ ksDataFmt' = [ksDataFmt EXCEPT ![n] = fmt]
    /\ ksRet' = None
    /\ UNCHANGED <<ksMeas, ksDev, ksCache>>

\* top-level parameters declared with a set command and a value domain
KsSettable == {"num_points", "power", "trigger_source"}

KsCmd(name) ==
    CASE name = "num_points"     -> ":SENS1:SWE:POIN"
      [] name = "power"          -> ":SOUR1:POW"
      [] name = "trigger_source" -> "TRIG:SOUR"
      [] name = "sweep_time"     -> ":SENS1:SWE:TIME"

KsTrigSources == {"IMM", "EXT", "MAN"}

\* vals of each parameter
KsValid(name, v) ==
    CASE name = "num_points"     -> v \in 1..1601
      [] name = "power"          -> v >= -85 /\ v <= 10
      [] name = "trigger_source" -> v \in KsTrigSources

\* values a caller tries to set: in and out of the domain
KsProbe(name) ==
    CASE name = "num_points"     -> {0, 1, 1601, 1602}
      [] name = "power"          -> {-86, -85, 10, 11}
      [] name = "trigger_source" -> {"IMM", "MAN", "BUS"}

\* Parameter.set of a parameter with a set command: validate, then write
KsSet(name, v) ==
    /\ ksOp' = [name |-> "set", par |-> name, n |-> 0, arg |-> v,
                res |-> IF KsValid(name, v) THEN "ok" ELSE "ValidationError"]
    /\ ksLog' = IF KsValid(name, v) THEN << KsWrite(KsCmd(name), 0, v) >> ELSE <<>>
    /\ ksDev' = IF KsValid(name, v) THEN [ksDev EXCEPT ![name] = v] ELSE ksDev
    /\ ksRet' = None
    /\ UNCHANGED <<ksMeas, ksCache, ksDataFmt>>

\* Parameter.get of a parameter with a query command
KsGet(name) ==
    /\ ksOp' = [name |-> "get", par |-> name, n |-> 0, arg |-> None, res |-> "ok"]
    /\ ksLog' = << KsAsk(KsCmd(name), 0) >>
    /\ ksRet' = ksDev[name]
    /\ UNCHANGED <<ksMeas, ksDev, ksCache, ksDataFmt>>

\* Parameter.set of sweep_time, declared with set_cmd = None: a manual
\* parameter, set stores the value and sends nothing
KsSetManual(name, v) ==
    /\ ksOp' = [name |-> "set", par |-> name, n |-> 0, arg |-> v, res |-> "ok"]
    /\ ksLog' = <<>>
    /\ ksCache' = <<v>>
    /\ ksRet' = None
    /\ UNCHANGED <<ksMeas, ksDev, ksDataFmt>>

\* traces the device may hold when the driver connects: none, or one trace
\* on channel 1 or 2
KsInitMeas ==
    { [n \in 1..MaxTrace |-> KsNoTrace] } \cup
    { [n \in 1..MaxTrace |->
          IF n = t THEN [chan |-> c, par |-> "S21", fmt |-> "MLOG"] ELSE KsNoTrace] :
      t \in 1..MaxTrace, c \in {1, 2} }

KsStart ==
    /\ ksMeas \in KsInitMeas
    /\ ksDev \in [num_points : {MaxPts}, power : {-85}, trigger_source : {"IMM"},
                  sweep_time : {100}, bare : {{3}}]
    /\ ksCache = Empty
    /\ ksDataFmt = [n \in 1..MaxTrace |-> "POL"]
    /\ ksOp = [name |-> "init", par |-> None, n |-> 0, arg |-> None, res |-> "ok"]
    /\ ksRet = None
    /\ ksLog = <<>>

\* the Keysight driver is not in use
KsIdle ==
    /\ ksMeas = <<>> /\ ksDev = None /\ ksCache = None /\ ksDataFmt = <<>>
    /\ ksOp = [name |-> "idle", par |-> None, n |-> 0, arg |-> None, res |-> "ok"]
    /\ ksRet = None /\ ksLog = <<>>

KeysightNext ==
    /\ session = "keysight"
    /\ UNCHANGED <<session, agVars, scVars, adVars>>
    /\ \/ \E n \in 1..MaxTrace : \E out \in Outcomes : TraceData_get_raw(n, out)
       \/ \E n \in 1..MaxTrace : FrequencyData_get_raw(n)
       \/ \E n \in 1..MaxTrace : SParameterData_get_raw(n)
       \/ \E n \in 1..MaxTrace : \E p \in {"S21", "S33"} : SParameterData_set(n, p)
       \/ \E n \in 1..MaxTrace : add_trace(n, "S21")
       \/ \E n \in 1..MaxTrace : remove_trace(n)
       \/ clear_all_traces
       \/ \E n \in 1..MaxTrace : \E fmt \in {"POL", None} : KsSetDataFmt(n, fmt)
       \/ KsGetExistingTraces

----------------------------------------------------------------------------
(* Specifications: one driver session each *)

KeysightInit == session = "keysight" /\ AgIdle /\ ScIdle /\ AdIdle /\ KsStart

SpecKeysight == KeysightInit /\ [][KeysightNext]_vars


AD5760Next ==
    /\ session = "ad5760"
    /\ adCalls < MaxOps
    /\ adCalls' = adCalls + 1
    /\ UNCHANGED <<session, agVars, scVars, ksVars>>
    /\ \/ \E name \in {"voltage", "current"} : \E v \in AdProbe : AdSet(name, v)
       \/ \E name \in {"voltage", "current"} : AdGet(name)
       \/ \E ramp_to \in AdTargets : \E step \in AdSteps : ramp_voltage(ramp_to, step)
       \/ \E ramp_to \in AdTargets : \E step \in AdSteps : ramp_current(ramp_to, step)
       \/ \E out \in Outcomes : state(out)

AD5760Init == session = "ad5760" /\ AgIdle /\ ScIdle /\ AdStart /\ KsIdle

SpecAD5760 == AD5760Init /\ [][AD5760Next]_vars


SignalCoreInit == session = "signalcore" /\ AgIdle /\ ScStart /\ AdIdle /\ KsIdle

SpecSignalCore == SignalCoreInit /\ [][SignalCoreNext]_vars

\* parameter get and set of every driver
AgParams == {"num_points", "power", "trigger_source"}

ParamsNext ==
    \/ /\ session = "agilent"
       /\ UNCHANGED <<session, scVars, adVars, ksVars>>
       /\ \/ \E name \in AgParams : \E v \in AgProbe(name) : AgSet(name, v)
          \/ \E name \in AgParams \cup {"sweep_time"} : AgGet(name)
          \/ \E name \in AgManual : AgSetManual(name, ManualProbe)
    \/ /\ session = "keysight"
       /\ UNCHANGED <<session, agVars, scVars, adVars>>
       /\ \/ \E name \in KsSettable : \E v \in KsProbe(name) : KsSet(name, v)
          \/ \E name \in KsSettable \cup {"sweep_time"} : KsGet(name)
          \/ KsSetManual("sweep_time", ManualProbe)
          \/ \E n \in 1..MaxTrace : \E p \in {"S11", "S33"} : SParameterData_set(n, p)
    \/ /\ session = "signalcore"
       /\ UNCHANGED <<session, agVars, adVars, ksVars>>
       /\ \/ \E name \in ScParams : \E v \in ScProbe(name) : ScSet(name, v, "ok", TRUE)
          \/ \E name \in ScParams \cup {"temperature"} : ScGet(name, "ok")
          \/ ScSetReadOnly("temperature", ManualProbe)
    \/ /\ session = "ad5760"
       /\ adCalls < MaxOps
       /\ adCalls' = adCalls + 1
       /\ UNCHANGED <<session, agVars, scVars, ksVars>>
       /\ \/ \E name \in {"voltage", "current"} : \E v \in AdProbe : AdSet(name, v)
          \/ \E name \in {"voltage", "current"} : AdGet(name)

AcquireInit == session = "agilent" /\ AgStart /\ ScIdle /\ AdIdle /\ KsIdle

SpecAcquire == AcquireInit /\ [][AcquireNext]_vars

ParamsInit == AcquireInit \/ KeysightInit \/ SignalCoreInit \/ AD5760Init

SpecParams == ParamsInit /\ [][ParamsNext]_vars

----------------------------------------------------------------------------
(* Claims on the averaged acquisition *)

\* C2: whenever average(count) finishes, with the trace or with a timeout of
\* the operation-complete wait, the device's trigger source and trace format
\* equal the values they had immediately before the call.
C2_AverageRestoresTriggerAndFormat ==
    [][(agOp'.name = "average" /\ agOp'.res \in {"ok", "Timeout"})
          => /\ agDev'.trigger_source = agDev.trigger_source
             /\ agDev'.trform = agDev.trform]_agDev

\* C6: average(1) never enables hardware averaging: it writes averaging off and
\* the averaging trigger off, sends no averaging-on and no average-count
\* command, and sends exactly one trigger, before the trace is read.
C6_SingleShotNeverAverages ==
    (agOp.name = "average" /\ agOp.arg = 1) =>
        /\ Count(agLog, "write", ":SENS1:AVER") = 1
        /\ \A i \in Positions(agLog, "write", ":SENS1:AVER") : agLog[i].arg = 0
        /\ Count(agLog, "write", ":TRIG:AVER") = 1
        /\ \A i \in Positions(agLog, "write", ":TRIG:AVER") : agLog[i].arg = 0
        /\ Count(agLog, "write", ":SENS1:AVER:COUN") = 0
        /\ agDev.averaging = 0 /\ agDev.average_trigger = 0
        /\ Count(agLog, "write", ":TRIG:SING") = 1
        /\ Count(agLog, "ask", ":CALC:DATA:FDATA") = 1
        /\ \A i \in Positions(agLog, "write", ":TRIG:SING") :
               \A j \in Positions(agLog, "ask", ":CALC:DATA:FDATA") : i < j

\* average(1) returned a trace
C6_Witness ==
    agOp.name = "average" /\ agOp.arg = 1 /\ agOp.res = "ok" /\ agRet # None

\* C7: average(count) with count > 1 enables hardware averaging, sets the
\* average count to exactly count, sends exactly one trigger and then exactly
\* one '*OPC?' query; the trace is read and returned only after that query
\* has returned.
C7_MultiShotWaitsForCompletion ==
    (agOp.name = "average" /\ agOp.arg > 1) =>
        /\ Count(agLog, "write", ":SENS1:AVER") = 1
        /\ \A i \in Positions(agLog, "write", ":SENS1:AVER") : agLog[i].arg = 1
        /\ agDev.averaging = 1
        /\ Count(agLog, "write", ":SENS1:AVER:COUN") = 1
        /\ \A i \in Positions(agLog, "write", ":SENS1:AVER:COUN") :
               agLog[i].arg = agOp.arg
        /\ agDev.avgnum = agOp.arg
        /\ Count(agLog, "write", ":TRIG:SING") = 1
        /\ Count(agLog, "ask", "*OPC") = 1
        /\ \A i \in Positions(agLog, "write", ":TRIG:SING") :
               \A j \in Positions(agLog, "ask", "*OPC") : i < j
        /\ \A i \in Positions(agLog, "ask", "*OPC") :
               \A j \in Positions(agLog, "ask", ":CALC:DATA:FDATA") : i < j
        /\ (agOp.res = "Timeout") =>
               (agRet = None /\ Count(agLog, "ask", ":CALC:DATA:FDATA") = 0)
        /\ (agRet # None) =>
               (agOp.res = "ok" /\ Count(agLog, "ask", ":CALC:DATA:FDATA") = 1)

\* average(count), count > 1, returned a trace after the wait
C7_Witness ==
    agOp.name = "average" /\ agOp.arg > 1 /\ agOp.res = "ok" /\ agRet # None

\* C21: for every count >= 1 the averaged acquisition goes configure-trigger,
\* wait-for-completion, read-trace, restore-trigger: the trace is asked for
\* only after an operation-complete query that follows the trigger has
\* returned, and the trigger source is written again after the trigger
\* (the restore step), whether the wait returned or timed out.
C21_AcquisitionOrder ==
    (session = "agilent" /\ agOp.name = "average" /\ agOp.arg >= 1) =>
        /\ \A j \in Positions(agLog, "ask", ":CALC:DATA:FDATA") :
               \E i \in Positions(agLog, "write", ":TRIG:SING") :
                   \E k \in Positions(agLog, "ask", "*OPC") : i < k /\ k < j
        /\ \E i \in Positions(agLog, "write", ":TRIG:SING") :
               \E r \in Positions(agLog, "write", "TRIG:SOUR") : i < r

\* C22: in average(count), count >= 1, the transport timeout is set to
\* count times the sweep time read from the device plus the 0.5 s buffer,
\* and it is set before the trigger command is sent, never after it.
C22_TimeoutBeforeTrigger ==
    (session = "agilent" /\ agOp.name = "average" /\ agOp.arg >= 1) =>
        /\ Count(agLog, "timeout", "timeout") = 1
        /\ agTimeout = agOp.arg * agDev.sweep_time + 500
        /\ \A t \in Positions(agLog, "timeout", "timeout") :
               /\ agLog[t].arg = agOp.arg * agDev.sweep_time + 500
               /\ \E q \in Positions(agLog, "ask", ":SENS1:SWE:TIME") : q < t
               /\ \A i \in Positions(agLog, "write", ":TRIG:SING") : t < i
        /\ Count(agLog, "write", ":TRIG:SING") = 1

\* average(count), count > 1, ran on a device whose sweep takes 250 ms
C22_Witness ==
    /\ session = "agilent" /\ agOp.name = "average" /\ agOp.arg > 1
    /\ agDev.sweep_time = 250 /\ agTimeout = agOp.arg * 250 + 500
    /\ Count(agLog, "write", ":TRIG:SING") = 1

\* C29: after average(count) returns, count >= 1, the transport timeout has
\* the value it had before the call.
C29_TimeoutRestored ==
    [][(agOp'.name = "average" /\ agOp'.arg >= 1 /\ agOp'.res = "ok")
          => agTimeout' = agTimeout]_agTimeout

----------------------------------------------------------------------------
(* Claims on parameter set and get *)

\* C1: a set of a parameter that declares a value domain, with a value
\* outside the domain, raises a validation error, issues no transport call
\* (no command, no register write, no library call) and leaves the device
\* as it was.
C1_OutOfDomainSetSendsNothing ==
    /\ [] /\ (session = "agilent" /\ agOp.name = "set" /\ agOp.par \in AgSettable
                /\ ~AgValid(agOp.par, agOp.arg))
             => (agOp.res = "ValidationError" /\ agLog = <<>>)
          /\ (session = "keysight" /\ ksOp.name = "set" /\ ksOp.par \in KsSettable
                /\ ~KsValid(ksOp.par, ksOp.arg))
             => (ksOp.res = "ValidationError" /\ ksLog = <<>>)
          /\ (session = "keysight" /\ ksOp.name = "set" /\ ksOp.par = "s_parameter"
                /\ ksOp.arg \notin KsSParams)
             => (ksOp.res = "ValidationError" /\ ksLog = <<>>)
          /\ (session = "signalcore" /\ scOp.name = "set" /\ scOp.par \in ScParams
                /\ ~ScValid(scOp.par, scOp.arg))
             => (scOp.res = "ValidationError" /\ scLog = <<>>)
          /\ (session = "ad5760" /\ adOp.name = "set" /\ ~AdValid(adOp.arg))
             => (adOp.res = "ValidationError" /\ adLog = <<>>)
    /\ [][ \/ agOp'.res = "ValidationError" \/ ksOp'.res = "ValidationError"
           \/ scOp'.res = "ValidationError"
           \/ (adOp'.name = "set" /\ adOp'.res = "ValidationError")
           => /\ agDev' = agDev /\ ksDev' = ksDev /\ ksMeas' = ksMeas
              /\ scDev' = scDev /\ scHandle' = scHandle /\ scLeaked' = scLeaked
              /\ adReg' = adReg
         ]_<<agDev, ksDev, ksMeas, scDev, scHandle, scLeaked, adReg>>

\* the AD5760 refused a voltage beyond 10 V
C1_Witness ==
    /\ session = "ad5760" /\ adOp.name = "set" /\ adOp.par = "voltage"
    /\ adOp.arg > 10 * Volt /\ adOp.res = "ValidationError"

\* one step of the 16 bit converter
AdQuantum == 80

\* C8: for every settable parameter and in-domain value v, set(v) followed by
\* get returns v, up to the quantization of the device, against a device
\* that stores what was last written.
C8_SetThenGetReturnsValue ==
    [][ /\ (session = "agilent" /\ agOp.name = "set" /\ agOp.res = "ok"
              /\ agOp.par \in AgSettable
              /\ agOp'.name = "get" /\ agOp'.par = agOp.par)
           => agRet' = agOp.arg
        /\ (session = "keysight" /\ ksOp.name = "set" /\ ksOp.res = "ok"
              /\ ksOp.par \in KsSettable
              /\ ksOp'.name = "get" /\ ksOp'.par = ksOp.par)
           => ksRet' = ksOp.arg
        /\ (session = "signalcore" /\ scOp.name = "set" /\ scOp.res = "ok"
              /\ scOp'.name = "get" /\ scOp'.par = scOp.par /\ scOp'.res = "ok")
           => scRet' = scOp.arg
        /\ (session = "ad5760" /\ adOp.name = "set" /\ adOp.res = "ok"
              /\ adOp'.name = "get" /\ adOp'.par = adOp.par)
           => (adRet' - adOp.arg <= AdQuantum /\ adOp.arg - adRet' <= AdQuantum)
      ]_<<agOp.name, ksOp.name, scOp.name, adOp.name>>

\* C9: a set of a parameter declared without a setter fails with an
\* unsupported-operation error, sends nothing and changes no value the driver
\* holds.
C9_ReadOnlySetFails ==
    /\ [] /\ (session = "agilent" /\ agOp.name = "set" /\ agOp.par \in AgManual)
             => (agOp.res = "NotImplementedError" /\ agLog = <<>>)
          /\ (session = "keysight" /\ ksOp.name = "set" /\ ksOp.par = "sweep_time")
             => (ksOp.res = "NotImplementedError" /\ ksLog = <<>>)
          /\ (session = "signalcore" /\ scOp.name = "set" /\ scOp.par = "temperature")
             => (scOp.res = "NotImplementedError" /\ scLog = <<>>)
    /\ [][ \/ (agOp'.name = "set" /\ agOp'.par \in AgManual)
           \/ (ksOp'.name = "set" /\ ksOp'.par = "sweep_time")
           \/ (scOp'.name = "set" /\ scOp'.par = "temperature")
           => agCache' = agCache /\ ksCache' = ksCache
         ]_<<agCache, ksCache>>

----------------------------------------------------------------------------
(* Claims on the per-trace parameters *)

\* C3: every read of frequency, data or s_parameter of trace n first asks
\* the catalog of the channels; if trace n is not in the catalog (which is
\* when it has no points), the read sends nothing but catalog queries and
\* returns the empty array, or 'Trace is not on'.
C3_AbsentTraceReadsNothing ==
    (session = "keysight" /\ ksOp.name = "get"
        /\ ksOp.par \in {"frequency", "data", "s_parameter"}) =>
        /\ Len(ksLog) >= NumChannels
        /\ \A i \in 1..NumChannels :
               /\ ksLog[i].io = "ask"
               /\ ksLog[i].cmd = "CALC:PAR:CAT:EXT"
               /\ ksLog[i].n = i
        /\ (ksMeas[ksOp.n].chan = 0) =>
               /\ \A i \in 1..Len(ksLog) : ksLog[i].cmd = "CALC:PAR:CAT:EXT"
               /\ IF ksOp.par = "s_parameter" THEN ksRet = "Trace is not on"
                  ELSE ksRet = <<>>

\* the data of a trace that is not on was read while another trace is on
C3_Witness ==
    /\ session = "keysight" /\ ksOp.name = "get" /\ ksOp.par = "data"
    /\ ksMeas[ksOp.n].chan = 0 /\ ksRet = <<>>
    /\ \E m \in 1..MaxTrace : ksMeas[m].chan # 0

----------------------------------------------------------------------------
(* Claims on the SignalCore handles *)

\* C4: no vendor-library call other than open is made with a handle that has
\* already been closed.
C4_NoUseAfterClose ==
    session = "signalcore" =>
        \A i \in 1..Len(scLog) : scLog[i].fn # "open_device" => scLog[i].live

\* C5: every handle a per-call operation (get, set, get_idn) opens is closed
\* before the operation ends, whether the library call in between succeeds
\* or fails.
C5_PerCallHandleClosed ==
    (session = "signalcore" /\ scOp.name \in {"get", "set", "get_idn"}
        /\ ScCount(scLog, "open_device") > 0) =>
        /\ ScCount(scLog, "close_device") = ScCount(scLog, "open_device")
        /\ Last(scLog).fn = "close_device"
        /\ scHandle = "closed"

\* C27: in every reachable state _open is true exactly when the handle
\* stored in _handle is open; no handle is closed twice; and once
\* set_open(False) or close() has been called no opened handle is left
\* unclosed.
C27_OpenFlagMatchesHandle ==
    session = "signalcore" =>
        /\ scOpen <=> (scHandle = "open")
        /\ \A i \in 1..Len(scLog) : scLog[i].fn = "close_device" => scLog[i].live
        /\ (scOp.name \in {"set_open", "close"} /\ scOp.arg = FALSE)
              => (scHandle = "closed" /\ scLeaked = 0)

----------------------------------------------------------------------------
(* Claims on the ramp *)

CeilDiv(a, b) == (a + b - 1) \div b

Abs(x) == IF x >= 0 THEN x ELSE -x

\* C10: a ramp from the current value to a target with a positive step makes
\* exactly ceil(|target - current| / step) value-update calls.
C10_RampStepCount ==
    (session = "ad5760" /\ adOp.name \in {"ramp_voltage", "ramp_current"}) =>
        Len(adUpdates) = CeilDiv(Abs(adOp.arg - adOp.start), adOp.step)

\* C11: a ramp from 0 to 1 V with step 0.25 V makes exactly 5 value-update
\* calls, with 0.25, 0.5, 0.75, 1.0 and 1.25 V in that order.
C11_RampZeroToOne ==
    (session = "ad5760" /\ adOp.name = "ramp_voltage" /\ adOp.start = 0
        /\ adOp.arg = Volt /\ adOp.step = Volt \div 4) =>
        adUpdates = << Volt \div 4, Volt \div 2, 3 * (Volt \div 4), Volt,
                       5 * (Volt \div 4) >>

\* C12: a ramp whose target equals the present value makes no value-update
\* call and no delay: it reads the present value and writes nothing.
C12_ZeroDistanceRamp ==
    (session = "ad5760" /\ adOp.name \in {"ramp_voltage", "ramp_current"}
        /\ adOp.arg = adOp.start) =>
        /\ adUpdates = <<>>
        /\ adLog = << AdRead(adReg) >>
        /\ adOp.res = "ok"

\* a ramp to 0 V was asked of a device that is at 0 V
C12_Witness ==
    /\ session = "ad5760" /\ adOp.name = "ramp_voltage"
    /\ adOp.arg = 0 /\ adOp.start = 0 /\ adOp.step > 0
    /\ Len(adLog) = 1

\* C23: a ramp reads the starting value from the device exactly once, before
\* its first update; update i is start + i*step when target > start and
\* start - i*step when target < start, so the values strictly increase or
\* strictly decrease by one step each, and they are fixed by that one read:
\* nothing the device holds later enters the values written.
C23_RampStepsFromOneRead ==
    (session = "ad5760" /\ adOp.name \in {"ramp_voltage", "ramp_current"}) =>
        /\ adLog[1].fn = "ReadRegister"
        /\ \A k \in 2..Len(adLog) : adLog[k].fn \in {"WriteRegister", "sleep"}
        /\ \A i \in 1..Len(adUpdates) :
               /\ adOp.arg > adOp.start => adUpdates[i] = adOp.start + i * adOp.step
               /\ adOp.arg < adOp.start => adUpdates[i] = adOp.start - i * adOp.step
        /\ \A i \in 2..Len(adUpdates) :
               /\ adOp.arg > adOp.start => adUpdates[i] > adUpdates[i - 1]
               /\ adOp.arg < adOp.start => adUpdates[i] < adUpdates[i - 1]
        /\ \A k \in 1..((Len(adLog) - 1) \div 2) :
               adLog[2 * k] = AdWrite(write(adUpdates[k]))

\* a downward ramp made two updates or more
C23_Witness ==
    /\ session = "ad5760" /\ adOp.name \in {"ramp_voltage", "ramp_current"}
    /\ adOp.arg < adOp.start /\ Len(adUpdates) >= 2 /\ Len(adLog) >= 5

\* C24: a ramp whose starting value and target both lie in [-10, 10] V never
\* passes a value outside [-10, 10] V to the parameter, and so never fails
\* with a validation error part-way, whatever the positive step.
C24_RampStaysInDomain ==
    (session = "ad5760" /\ adOp.name \in {"ramp_voltage", "ramp_current"}
        /\ AdValid(adOp.start) /\ AdValid(adOp.arg) /\ adOp.step > 0) =>
        /\ adOp.res = "ok"
        /\ \A i \in 1..Len(adUpdates) : AdValid(adUpdates[i])

\* C25: when |target - start| is a whole number of steps, the last value a
\* ramp writes is the target; and no value a ramp writes lies beyond the
\* target, seen from the start.
C25_RampEndsAtTarget ==
    (session = "ad5760" /\ adOp.name \in {"ramp_voltage", "ramp_current"}) =>
        /\ (adOp.arg # adOp.start /\ Abs(adOp.arg - adOp.start) % adOp.step = 0)
              => (adUpdates # <<>> /\ Last(adUpdates) = adOp.arg)
        /\ \A i \in 1..Len(adUpdates) :
               /\ adOp.arg > adOp.start => adUpdates[i] <= adOp.arg
               /\ adOp.arg < adOp.start => adUpdates[i] >= adOp.arg

\* C26: a ramp over a distance d with step s makes as many value-update
\* calls as the ramp over the same distance in the other direction, which is
\* the ramp from this ramp's target back to its start.
C26_RampSymmetric ==
    (session = "ad5760" /\ adOp.name \in {"ramp_voltage", "ramp_current"}
        /\ adOp.res = "ok"
        /\ \A i \in 1..rampPasses(adOp.arg, adOp.start, adOp.step) :
               AdValid(rampValue(adOp.arg, adOp.start, adOp.step, i))) =>
        Len(adUpdates) = rampPasses(adOp.arg, adOp.start, adOp.step)

----------------------------------------------------------------------------
(* Claims on the trace catalog and the decoding of traces *)

\* C13: trace enumeration asks the catalog of each channel 1..8 exactly
\* once; a channel that replies "NO CATALOG" or nothing contributes no trace
\* and no error, and the traces of the other channels are all returned as
\* (channel, number, parameter) triples.
C13_EnumerationSkipsEmptyChannels ==
    (session = "keysight" /\ ksOp.name = "get_existing_traces") =>
        /\ ksOp.res = "ok"
        /\ Len(ksLog) = NumChannels
        /\ \A i \in 1..NumChannels :
               ksLog[i] = [io |-> "ask", cmd |-> "CALC:PAR:CAT:EXT", n |-> i,
                           arg |-> "?"]
        /\ {ksRet[k] : k \in 1..Len(ksRet)} =
               {<<ksMeas[n].chan, n, ksMeas[n].par>> :
                    n \in {m \in DOMAIN ksMeas : ksMeas[m].chan # 0}}
        /\ Len(ksRet) = Cardinality({m \in DOMAIN ksMeas : ksMeas[m].chan # 0})

\* the traces were listed while channel 1 had no catalog, channel 3 replied
\* nothing and channel 2 held a trace
C13_Witness ==
    /\ session = "keysight" /\ ksOp.name = "get_existing_traces"
    /\ ksDev.bare = {3}
    /\ \A n \in DOMAIN ksMeas : ksMeas[n].chan # 1
    /\ \E n \in DOMAIN ksMeas : ksMeas[n].chan = 2
    /\ Len(ksRet) > 0

\* C14: decoding a reply of 2k numbers in the paired (POL) format gives k
\* complex points, point i being reply[2i] + j*reply[2i+1] (counting from
\* 0), in reply order; "1,0,2,0,3,1" gives (1+0j), (2+0j), (3+1j).
C14_PairedDecoding ==
    /\ KsDecode(<<1, 0, 2, 0, 3, 1>>, "POL") = << <<1, 0>>, <<2, 0>>, <<3, 1>> >>
    /\ (session = "keysight" /\ ksOp.name = "get" /\ ksOp.par = "data"
          /\ ksOp.res = "ok" /\ ksMeas[ksOp.n].chan # 0
          /\ ksDataFmt[ksOp.n] = "POL") =>
          LET reply == replyFDATA(ksOp.n, "POL")
          IN /\ 2 * Len(ksRet) = Len(reply)
             /\ \A i \in 1..Len(ksRet) :
                    ksRet[i] = << reply[2 * i - 1], reply[2 * i] >>

\* a trace of two points was read in the POL format
C14_Witness ==
    /\ session = "keysight" /\ ksOp.name = "get" /\ ksOp.par = "data"
    /\ ksOp.res = "ok" /\ ksMeas[ksOp.n].chan # 0 /\ ksDataFmt[ksOp.n] = "POL"
    /\ ksDev.num_points >= 2 /\ Len(ksRet) = ksDev.num_points

\* C15: a reply with an odd number of values is returned by every
\* paired-trace decoder (TraceData.get_raw, gettrace) as the flat sequence of
\* its values, unchanged and in order, without an error.
C15_OddReplyStaysFlat ==
    /\ KsDecode(<<1, 2, 3>>, "POL") = <<1, 2, 3>>
    /\ (session = "agilent" /\ agOp.name = "average" /\ Len(agTrace) % 2 = 1
          /\ agOp.res \notin {"AssertionError", "Timeout"}) =>
          (agOp.res = "ok" /\ agRet = agTrace)

----------------------------------------------------------------------------
(* Claims on errors *)

\* C16: no operation swallows an error, but for the read of a trace that is
\* not present: state() does not turn a failed read into a normal return,
\* and a set of s_parameter does not return normally without sending the
\* command.
C16_NoSwallowedError ==
    /\ (session = "ad5760" /\ adOp.name = "state"
          /\ \E i \in 1..Len(adLog) : adLog[i] = AdReadFailed)
          => adOp.res # "ok"
    /\ (session = "keysight" /\ ksOp.name = "set" /\ ksOp.par = "s_parameter"
          /\ ksOp.res = "ok")
          => \E i \in 1..Len(ksLog) :
                 ksLog[i].io = "write" /\ ksLog[i].cmd = ":CALC1:MEAS:PAR"

\* C17: when a transport error occurs in the read of the trace data after the
\* format was switched and before it was switched back, the trace has its
\* previous format on the device when the error reaches the caller.
C17_FormatRestoredOnError ==
    [][(ksOp'.name = "get" /\ ksOp'.par = "data" /\ ksOp'.res = "VisaIOError")
          => ksMeas' = ksMeas]_ksMeas

\* C28: a successful read of the data of a trace that is on leaves the
\* trace's format on the device as it was: the format is asked for, the
\* acquisition format written, the data asked for, and the format that was
\* asked for written back, in that order; with the acquisition format unset
\* (None) no format query and no format write is sent.
C28_SuccessfulReadKeepsFormat ==
    /\ [] ((session = "keysight" /\ ksOp.name = "get" /\ ksOp.par = "data"
              /\ ksOp.res = "ok" /\ ksMeas[ksOp.n].chan # 0) =>
            LET n == ksOp.n
                form == {i \in 1..Len(ksLog) : ksLog[i].cmd = "CALC:MEAS:FORM"}
                L == Len(ksLog)
            IN IF ksDataFmt[n] = None
               THEN form = {} /\ ksLog[L] = KsAsk("CALC:MEAS:DATA:FDATA", n)
               ELSE /\ form = {L - 3, L - 2, L}
                    /\ ksLog[L - 3] = KsAsk("CALC:MEAS:FORM", n)
                    /\ ksLog[L - 2] = KsWrite("CALC:MEAS:FORM", n, ksDataFmt[n])
                    /\ ksLog[L - 1] = KsAsk("CALC:MEAS:DATA:FDATA", n)
                    /\ ksLog[L] = KsWrite("CALC:MEAS:FORM", n, ksMeas[n].fmt))
    /\ [][(ksOp'.name = "get" /\ ksOp'.par = "data" /\ ksOp'.res = "ok")
            => ksMeas' = ksMeas]_ksMeas

\* the data of a trace shown as MLOG was read in the POL format, and MLOG
\* was written back
C28_Witness ==
    /\ session = "keysight" /\ ksOp.name = "get" /\ ksOp.par = "data"
    /\ ksOp.res = "ok" /\ ksMeas[ksOp.n].chan # 0 /\ ksDataFmt[ksOp.n] = "POL"
    /\ Last(ksLog) = KsWrite("CALC:MEAS:FORM", ksOp.n, "MLOG")
    /\ ksMeas[ksOp.n].fmt = "MLOG"

----------------------------------------------------------------------------
(* Claims on the SignalCore getters and the device information *)

\* the library calls that read the device
ScQueries == {"get_device_status", "get_rf_parameters", "get_temperature"}

\* C18: every parameter get takes its value from a device query issued
\* during that get; the get of reference_source gives the device's
\* external-reference-lock state at the time of the get.
C18_GetQueriesDevice ==
    (session = "signalcore" /\ scOp.name = "get" /\ scOp.res = "ok") =>
        /\ \E i \in 1..Len(scLog) : scLog[i].fn \in ScQueries
        /\ scOp.par = "reference_source" => scRet = scDev.ext_ref_lock_enable

\* C30: set and get of auto_level_disable invert consistently: a set of x in
\* {0, 1} passes 1 - x to the vendor library, a get returns 1 - (the device's
\* flag), and a set of x followed by a get returns x.
C30_AutoLevelInversion ==
    /\ [] /\ (session = "signalcore" /\ scOp.name = "set" /\ scOp.res = "ok"
                /\ scOp.par = "auto_level_disable")
              => /\ \E i \in 1..Len(scLog) : scLog[i].fn = "set_auto_level_disable"
                 /\ scDev.auto_pwr_disable = 1 - scOp.arg
          /\ (session = "signalcore" /\ scOp.name = "get" /\ scOp.res = "ok"
                /\ scOp.par = "auto_level_disable")
              => scRet = 1 - scDev.auto_pwr_disable
    /\ [][(scOp.name = "set" /\ scOp.res = "ok" /\ scOp.par = "auto_level_disable"
             /\ scOp'.name = "get" /\ scOp'.res = "ok"
             /\ scOp'.par = "auto_level_disable")
            => scRet' = scOp.arg]_<<scOp.name, scOp.par>>

\* auto_level_disable was set to 1 and then read back as 1
C30_Witness ==
    /\ session = "signalcore" /\ scOp.name = "get" /\ scOp.res = "ok"
    /\ scOp.par = "auto_level_disable" /\ scRet = 1
    /\ scDev.auto_pwr_disable = 0

----------------------------------------------------------------------------
(* Claims on get_bundle *)

\* C19: get_bundle(bundle) returns the device's present value of exactly the
\* keys given and changes no device setting; a key that is not a setting of
\* the driver raises an exception that names the key.
C19_GetBundleReadsOnly ==
    /\ [] ((session = "agilent" /\ agOp.name = "get_bundle") =>
            IF \A i \in 1..Len(agOp.arg) : agOp.arg[i] \in AgSettable \cup AgManual
            THEN /\ agOp.res = "ok"
                 /\ Len(agRet) = Len(agOp.arg)
                 /\ \A i \in 1..Len(agRet) :
                        /\ agRet[i][1] = agOp.arg[i]
                        /\ agRet[i][2] = agDev[agOp.arg[i]]
            ELSE /\ agOp.res = "Exception"
                 /\ agOp.par \notin AgSettable \cup AgManual
                 /\ \E i \in 1..Len(agOp.arg) : agOp.arg[i] = agOp.par)
    /\ [][agOp'.name = "get_bundle" => agDev' = agDev]_agDev

\* C20: the 32 bit manufacture date decodes to 'month/day/year' with the
\* year from bits 31..24 (written 20<year>), the day from bits 23..16 and the
\* month from bits 15..8; bits 7..0 have no part in it.
C20_DateDecode ==
    (session = "signalcore" /\ scOp.name = "get_idn" /\ scOp.res = "ok") =>
        LET d == scDev.manufacture_date
        IN scRet.manufacture_date =
               << DecDigits(d[3]), DecDigits(d[2]), <<2, 0>> \o DecDigits(d[1]) >>

\* the date of a device whose low byte is not zero was decoded as 3/17/2021
C20_Witness ==
    /\ session = "signalcore" /\ scOp.name = "get_idn" /\ scOp.res = "ok"
    /\ scDev.manufacture_date[4] = 255
    /\ scRet.manufacture_date = << <<3>>, <<1, 7>>, <<2, 0, 2, 1>> >>

====
